---- MODULE Spec2Model ----
(***************************************************************************)
(* github-nginx-hooker: a model of src/main.rs.                            *)
(*                                                                         *)
(* The process reads its configuration, loads the nginx allow file into a  *)
(* HashSet<IpNetwork>, and then loops for ever: fetch the hook addresses   *)
(* of the GitHub meta API, compare them with the set in memory, rewrite    *)
(* the file when they differ, run the after-update hook, log, sleep.       *)
(*                                                                         *)
(* Text is modelled as a sequence of tokens: a line of the allow file is a *)
(* sequence over Tokens, the file is the sequence of its lines.            *)
(***************************************************************************)
EXTENDS Naturals, Integers, Sequences, FiniteSets, TLC

(***************************************************************************)
(* Bounds of the model.                                                    *)
(***************************************************************************)
\* number of update cycles the loop is followed for
MaxCycles == 3
\* number of lines of the allow file found at start-up
MaxFileLines == 2
\* number of entries of the "hooks" array of a response
MaxHooks == 2

(***************************************************************************)
(* Values.                                                                 *)
(***************************************************************************)
\* an IpNetwork value: address and prefix length, compared structurally
Net(ip, prefix) == [ip |-> ip, prefix |-> prefix]

\* the address texts std::net::IpAddr::from_str accepts, among the tokens
ValidIps == {"10.0.0.0", "192.168.1.1"}

\* the networks the meta API is taken to answer with
Cidrs == {Net("10.0.0.0", 24), Net("192.168.1.1", 32)}

\* the prefix texts that parse as a number, with their value
PrefixTexts == {"24", "32", "99"}

PrefixValue(t) == CASE t = "24" -> 24 [] t = "32" -> 32 [] t = "99" -> 99

PrefixText(n) == CASE n = 24 -> "24" [] n = 32 -> "32" [] n = 99 -> "99"

Whitespace == {" "}

(***************************************************************************)
(* Sequence helpers standing for the std string operations the code calls. *)
(***************************************************************************)
RECURSIVE RemoveToken(_, _)
\* str::replace(c, "") for a one-token pattern
RemoveToken(s, t) ==
    IF s = <<>> THEN <<>>
    ELSE IF Head(s) = t THEN RemoveToken(Tail(s), t)
    ELSE <<Head(s)>> \o RemoveToken(Tail(s), t)

RECURSIVE RemovePair(_, _, _)
\* str::replace(p, "") for a two-token pattern: matches are taken from the
\* left and do not overlap
RemovePair(s, a, b) ==
    IF Len(s) < 2 THEN s
    ELSE IF s[1] = a /\ s[2] = b THEN RemovePair(Tail(Tail(s)), a, b)
    ELSE <<Head(s)>> \o RemovePair(Tail(s), a, b)

RECURSIVE TrimStart(_)
TrimStart(s) ==
    IF s # <<>> /\ Head(s) \in Whitespace THEN TrimStart(Tail(s)) ELSE s

RECURSIVE TrimEnd(_)
TrimEnd(s) ==
    IF s # <<>> /\ s[Len(s)] \in Whitespace
    THEN TrimEnd(SubSeq(s, 1, Len(s) - 1)) ELSE s

\* str::trim
Trim(s) == TrimEnd(TrimStart(s))

\* the positions of "/" in a text
SlashAt(s) == {i \in 1..Len(s) : s[i] = "/"}

(***************************************************************************)
(* IpNetwork: FromStr and Display.                                         *)
(***************************************************************************)
ParseErr == [ok |-> FALSE, cidr |-> Net("", 0)]

\* <IpNetwork as FromStr>::from_str: "addr" or "addr/prefix"; a text
\* without prefix is the host network
IpNetworkFromStr(s) ==
    IF SlashAt(s) = {}
    THEN IF Len(s) = 1 /\ s[1] \in ValidIps
         THEN [ok |-> TRUE, cidr |-> Net(s[1], 32)]
         ELSE ParseErr
    ELSE IF /\ Len(s) = 3
            /\ s[1] \in ValidIps
            /\ s[2] = "/"
            /\ s[3] \in PrefixTexts
            /\ PrefixValue(s[3]) <= 32
         THEN [ok |-> TRUE, cidr |-> Net(s[1], PrefixValue(s[3]))]
         ELSE ParseErr

\* a Display that leaves the prefix out
DisplayNoPrefix(cidr) == <<cidr.ip>>

\* <IpNetwork as Display>::fmt: "{}/{}"
Display(cidr) == <<cidr.ip, "/", PrefixText(cidr.prefix)>>

\* format_args!("allow {};\n", cidr), the line without its newline
FormatLine(cidr) == <<"allow", " ">> \o Display(cidr) \o <<";">>

(***************************************************************************)
(* AllowList::load, the parse loop.                                        *)
(***************************************************************************)
\* a stripping that forgets the semicolon
StripLineKeepsSemicolon(line) == Trim(RemovePair(line, "allow", " "))

\* the three statements that strip a line before it is parsed
StripLine(line) == Trim(RemovePair(RemoveToken(line, ";"), "allow", " "))

RECURSIVE ParseLinesKeep(_, _, _)
\* the loop with a break that forgets allow_list.clear()
ParseLinesKeep(content, i, acc) ==
    IF i > Len(content) THEN acc
    ELSE LET line == StripLine(content[i])
         IN  IF line = <<>> THEN ParseLinesKeep(content, i + 1, acc)
             ELSE LET r == IpNetworkFromStr(line)
                  IN  IF r.ok
                      THEN ParseLinesKeep(content, i + 1, acc \cup {r.cidr})
                      ELSE acc

RECURSIVE ParseLinesSkip(_, _, _)
\* the loop with a continue in the Err arm: the malformed line is skipped
ParseLinesSkip(content, i, acc) ==
    IF i > Len(content) THEN acc
    ELSE LET line == StripLine(content[i])
         IN  IF line = <<>> THEN ParseLinesSkip(content, i + 1, acc)
             ELSE LET r == IpNetworkFromStr(line)
                  IN  IF r.ok
                      THEN ParseLinesSkip(content, i + 1, acc \cup {r.cidr})
                      ELSE ParseLinesSkip(content, i + 1, acc)

RECURSIVE ParseLines(_, _, _)
\* the for loop over content.lines(), from line i with acc collected so far
ParseLines(content, i, acc) ==
    IF i > Len(content) THEN acc
    ELSE LET line == StripLine(content[i])
         IN  IF line = <<>> THEN ParseLines(content, i + 1, acc)
             ELSE LET r == IpNetworkFromStr(line)
                  IN  IF r.ok
                      THEN ParseLines(content, i + 1, acc \cup {r.cidr})
                      ELSE {}

ParseContent(content) == ParseLines(content, 1, {})

\* whether some line of the content is neither blank nor a network
HasBadLine(content) ==
    \E i \in 1..Len(content) :
        /\ StripLine(content[i]) # <<>>
        /\ ~IpNetworkFromStr(StripLine(content[i])).ok

\* a load that returns a parse error for a malformed line
LoadResultStrict(opened, read, content) ==
    IF ~opened THEN [ok |-> FALSE, err |-> "load_open", list |-> {}, clean |-> FALSE]
    ELSE IF ~read THEN [ok |-> FALSE, err |-> "load_read", list |-> {}, clean |-> FALSE]
    ELSE IF HasBadLine(content)
         THEN [ok |-> FALSE, err |-> "load_parse", list |-> {}, clean |-> FALSE]
         ELSE [ok |-> TRUE, err |-> "none", list |-> ParseContent(content), clean |-> TRUE]

\* AllowList::load: the ? on open, the ? on read_to_string, then the parse,
\* which never fails; clean tells whether the Err arm of the loop was taken
LoadResult(opened, read, content) ==
    IF ~opened THEN [ok |-> FALSE, err |-> "load_open", list |-> {}, clean |-> FALSE]
    ELSE IF ~read THEN [ok |-> FALSE, err |-> "load_read", list |-> {}, clean |-> FALSE]
    ELSE [ok |-> TRUE, err |-> "none", list |-> ParseContent(content),
          clean |-> ~HasBadLine(content)]

(***************************************************************************)
(* The inputs of a run.                                                    *)
(***************************************************************************)
\* sequences over S of length at most n
RECURSIVE SeqsUpTo(_, _)
SeqsUpTo(S, n) ==
    IF n = 0 THEN {<<>>}
    ELSE LET shorter == SeqsUpTo(S, n - 1)
         IN  shorter \cup {Append(s, x) : s \in shorter, x \in S}

\* lines an allow file may hold when the process starts
SampleLines ==
    { FormatLine(Net("10.0.0.0", 24)),
      <<"192.168.1.1">>,
      <<"allow", ";", " ", "10.0.0.0", "/", "24", " ">>,
      <<>>,
      <<"garbage">>,
      <<"allow", " ", "10.0.0.0", "/", "99", ";">> }

InitFiles == SeqsUpTo(SampleLines, MaxFileLines)

\* what the HTTP exchange of try_fetch can come to
ResponseKinds == {"ok", "transport_error", "bad_status", "bad_body"}

Responses ==
    [kind : {"ok"}, hooks : SeqsUpTo(Cidrs, MaxHooks)]
        \cup [kind : ResponseKinds \ {"ok"}, hooks : {<<>>}]

\* what std::process::Command::status can come to: the launch fails, or the
\* child ends with an exit code, or without one (killed by a signal)
HookStatuses ==
    { [launched |-> FALSE, code |-> -1],
      [launched |-> TRUE, code |-> 0],
      [launched |-> TRUE, code |-> 1],
      [launched |-> TRUE, code |-> -1] }

\* what a failing write_fmt may have written of its line: nothing, the
\* literal piece "allow ", or that and the address
PartialTokens == {0, 2, 3}

\* the I/O faults of one call of save: none, or the call that fails,
\* for a write the lines and the tokens of the next line already written
SaveFaults(n) ==
    [at : {"none", "set_len", "seek"}, lines : {0}, tokens : {0}]
        \cup [at : {"write"}, lines : 0..(n - 1), tokens : PartialTokens]

(***************************************************************************)
(* try_fetch.                                                              *)
(***************************************************************************)
Range(s) == {s[i] : i \in 1..Len(s)}

\* try_fetch with the errors defaulted to an empty answer
TryFetchDefault(resp) == [ok |-> TRUE, ips |-> Range(resp.hooks)]

\* Ok(HashSet::from_iter(hooks)) for a successful, deserializable response,
\* Err for the rest
TryFetch(resp) ==
    IF resp.kind = "ok"
    THEN [ok |-> TRUE, ips |-> Range(resp.hooks)]
    ELSE [ok |-> FALSE, ips |-> {}]

(***************************************************************************)
(* AllowList::update and AllowList::save.                                  *)
(***************************************************************************)
\* a comparison of the sizes only
DiffersBySize(stored, candidate) == Cardinality(stored) # Cardinality(candidate)

\* a comparison that sees added entries only
DiffersAddedOnly(stored, candidate) == ~(candidate \subseteq stored)

\* no comparison: every candidate is taken as new
DiffersAlways(stored, candidate) == TRUE

\* a comparison that takes an empty stored set as always different
DiffersOrEmpty(stored, candidate) == stored # candidate \/ stored = {}

\* the comparison of update: HashSet inequality
Differs(stored, candidate) == stored # candidate

\* an update that assigns only once save has succeeded
ReplacedAfterSave(stored, candidate, saved) == IF saved THEN candidate ELSE stored

\* the set update leaves in memory when the sets differ: it is assigned
\* before save is called, whatever save then returns
Replaced(stored, candidate, saved) == candidate

\* the orders in which a HashSet may be iterated
Orders(S) ==
    {o \in [1..Cardinality(S) -> S] : \A i, j \in DOMAIN o : i # j => o[i] # o[j]}

\* the lines save writes for an iteration order
LinesOf(order) == [i \in 1..Len(order) |-> FormatLine(order[i])]

\* a save that does not truncate
SetLen0Keeps(content) == content

\* the content of the file after set_len(0)
SetLen0(content) == <<>>

\* save: set_len(0), seek to the start, one write_fmt per entry; the
\* result and the content the file is left with, under an I/O fault
Save(content, order, fault) ==
    LET lines == LinesOf(order)
    IN  CASE fault.at = "none" ->
               [ok |-> TRUE, file |-> SetLen0(content) \o lines]
          [] fault.at = "set_len" ->
               [ok |-> FALSE, file |-> content]
          [] fault.at = "seek" ->
               [ok |-> FALSE, file |-> SetLen0(content)]
          [] fault.at = "write" ->
               [ok |-> FALSE,
                file |-> SetLen0(content)
                           \o SubSeq(lines, 1, fault.lines)
                           \o (IF fault.tokens = 0 THEN <<>>
                               ELSE <<SubSeq(lines[fault.lines + 1], 1, fault.tokens)>>)]

(***************************************************************************)
(* update_cycle, execute_after_update_hook and the match of main.          *)
(***************************************************************************)
\* an update_cycle that runs the hook whatever update reported
AfterUpdateAlways(result) == IF result = "io_error" THEN "match" ELSE "hook"

\* an update_cycle that drops the error of update and runs the hook
AfterUpdateIgnoresError(result) == IF result = "false" THEN "match" ELSE "hook"

\* where update_cycle goes with what update returned: the ? returns the
\* error, the if runs the hook for Ok(true) only
AfterUpdate(result) == IF result = "true" THEN "hook" ELSE "match"

\* what update_cycle returns when it does not run the hook
CycleResult(result) ==
    CASE result = "false" -> "ok_false"
      [] result = "io_error" -> "err_io"
      [] OTHER -> "none"

\* a hook step that does not look at the exit code
HookOkAnyExit(status) == status.launched

\* a hook step that takes a missing exit code for success
HookOkNoCode(status) == status.launched /\ status.code \in {0, -1}

\* whether execute_after_update_hook returns Ok
HookOk(status) == status.launched /\ status.code = 0

\* a main that returns the error of a cycle
AfterCycleFatal(result) ==
    IF result \in {"err_fetch", "err_io", "err_hook"} THEN "exit" ELSE "sleep"

\* where main goes with the result of update_cycle: both arms of the match
\* log and fall through to the sleep
AfterCycle(result) == "sleep"

\* what main logs for the result of update_cycle
LogOf(result) ==
    CASE result = "ok_true" -> "completed_changed"
      [] result = "ok_false" -> "completed_unchanged"
      [] OTHER -> "failed"

(***************************************************************************)
(* The state of the process.                                               *)
(***************************************************************************)
VARIABLES
    pc,              \* the statement main is at
    file,            \* the content of the allow file, as a sequence of lines
    allow_list,      \* AllowList.allow_list
    hook_server_ips, \* the set try_fetch returned to update_cycle
    ret,             \* what update_cycle returned to main
    logged,          \* what main logged for the last cycle
    exit_err,        \* the error main returned with
    cycles,          \* calls of update_cycle so far
    hookCalls,       \* calls of execute_after_update_hook so far
    changedCount,    \* calls of update that returned Ok(true) so far
    cycleHooks,      \* calls of execute_after_update_hook in this cycle
    startList,       \* allow_list when the cycle began
    startFile,       \* file when the cycle began
    response_kind,   \* what the HTTP exchange of this cycle came to
    hook_status,     \* what the hook of this cycle came to
    upd,             \* the call of update in this cycle
    prev,            \* the last call of update in the cycles before
    load_clean,      \* whether load parsed the file without a malformed line
    failed,          \* the failed calls of save so far
    startFailed      \* failed when the cycle began

vars ==
    <<pc, file, allow_list, hook_server_ips, ret, logged, exit_err, cycles,
      hookCalls, changedCount, cycleHooks, startList, startFile,
      response_kind, hook_status, upd, prev, load_clean, failed, startFailed>>

\* the variables that record the run of the loop
history ==
    <<cycles, hookCalls, changedCount, cycleHooks, startList, startFile,
      response_kind, hook_status, upd, prev, failed, startFailed>>

\* the record kept of a call of update: its argument, the fault its save
\* met ("not_called" when it did not save) and what it returned
NoUpdate == [called |-> FALSE, candidate |-> {}, fault |-> "not_called", ret |-> "none"]

UpdateCall(candidate, fault, result) ==
    [called |-> TRUE, candidate |-> candidate, fault |-> fault, ret |-> result]

NoPrevious == [called |-> FALSE, candidate |-> {}]

NotRun == [launched |-> FALSE, code |-> -1]

\* the record kept of the failed saves: whether there was one, the set the
\* most recent one was to write, and whether no save has succeeded since
NoFailure == [any |-> FALSE, candidate |-> {}, last |-> FALSE]

Init ==
    /\ pc = "config"
    /\ file \in InitFiles
    /\ allow_list = {}
    /\ hook_server_ips = {}
    /\ ret = "none"
    /\ logged = "none"
    /\ exit_err = "none"
    /\ cycles = 0
    /\ hookCalls = 0
    /\ changedCount = 0
    /\ cycleHooks = 0
    /\ startList = {}
    /\ startFile = <<>>
    /\ response_kind = "none"
    /\ hook_status = NotRun
    /\ upd = NoUpdate
    /\ prev = NoPrevious
    /\ load_clean = FALSE
    /\ failed = NoFailure
    /\ startFailed = NoFailure

(***************************************************************************)
(* main before the loop.                                                   *)
(***************************************************************************)
\* Config::read_from_file returns the configuration
ReadConfig ==
    /\ pc = "config"
    /\ pc' = "load"
    /\ UNCHANGED <<file, allow_list, hook_server_ips, ret, logged, exit_err,
                   load_clean, history>>

\* Config::read_from_file fails to read or to parse: main returns the error
ReadConfigFails ==
    /\ pc = "config"
    /\ pc' = "exit"
    /\ exit_err' = "config"
    /\ UNCHANGED <<file, allow_list, hook_server_ips, ret, logged, load_clean, history>>

\* AllowList::load: open fails, main returns the error
LoadOpenFails ==
    /\ pc = "load"
    /\ LET r == LoadResult(FALSE, FALSE, file)
       IN  /\ ~r.ok
           /\ pc' = "exit"
           /\ exit_err' = r.err
    /\ UNCHANGED <<file, allow_list, hook_server_ips, ret, logged, load_clean, history>>

\* AllowList::load: the file is open and read_to_string fails, main returns
\* the error
LoadReadFails ==
    /\ pc = "load"
    /\ LET r == LoadResult(TRUE, FALSE, file)
       IN  /\ ~r.ok
           /\ pc' = "exit"
           /\ exit_err' = r.err
    /\ UNCHANGED <<file, allow_list, hook_server_ips, ret, logged, load_clean, history>>

\* AllowList::load opens the file, reads it and parses it
Load ==
    /\ pc = "load"
    /\ LET r == LoadResult(TRUE, TRUE, file)
       IN  IF r.ok
           THEN /\ allow_list' = r.list
                /\ load_clean' = r.clean
                /\ pc' = "loop"
                /\ UNCHANGED exit_err
           ELSE /\ pc' = "exit"
                /\ exit_err' = r.err
                /\ UNCHANGED <<allow_list, load_clean>>
    /\ UNCHANGED <<file, hook_server_ips, ret, logged, history>>

(***************************************************************************)
(* update_cycle.                                                           *)
(***************************************************************************)
\* main calls update_cycle, which calls try_fetch
Fetch ==
    /\ pc = "loop"
    /\ cycles < MaxCycles
    /\ cycles' = cycles + 1
    /\ cycleHooks' = 0
    /\ startList' = allow_list
    /\ startFile' = file
    /\ hook_status' = NotRun
    /\ upd' = NoUpdate
    /\ prev' = IF upd.called THEN [called |-> TRUE, candidate |-> upd.candidate] ELSE prev
    /\ \E resp \in Responses :
         LET r == TryFetch(resp)
         IN  /\ response_kind' = resp.kind
             /\ hook_server_ips' = r.ips
             /\ IF r.ok
                THEN pc' = "update" /\ ret' = "none"
                ELSE pc' = "match" /\ ret' = "err_fetch"
    /\ startFailed' = failed
    /\ UNCHANGED <<file, allow_list, logged, exit_err, hookCalls, changedCount,
                   load_clean, failed>>

\* allow_list.update(hook_server_ips) finds the sets equal
UpdateUnchanged ==
    /\ pc = "update"
    /\ ~Differs(allow_list, hook_server_ips)
    /\ upd' = UpdateCall(hook_server_ips, "not_called", "false")
    /\ ret' = CycleResult("false")
    /\ pc' = AfterUpdate("false")
    /\ UNCHANGED <<file, allow_list, hook_server_ips, logged, exit_err, cycles,
                   hookCalls, changedCount, cycleHooks, startList, startFile,
                   response_kind, hook_status, prev, load_clean, failed, startFailed>>

\* allow_list.update(hook_server_ips) finds the sets different, replaces the
\* set in memory and saves it; save succeeds or fails
UpdateChanged ==
    /\ pc = "update"
    /\ Differs(allow_list, hook_server_ips)
    /\ \E order \in Orders(hook_server_ips) :
       \E fault \in SaveFaults(Len(order)) :
         LET r == Save(file, order, fault)
             result == IF r.ok THEN "true" ELSE "io_error"
         IN  /\ file' = r.file
             /\ allow_list' = Replaced(allow_list, hook_server_ips, r.ok)
             /\ upd' = UpdateCall(hook_server_ips, fault.at, result)
             /\ changedCount' = IF r.ok THEN changedCount + 1 ELSE changedCount
             /\ failed' = IF r.ok THEN [failed EXCEPT !.last = FALSE]
                           ELSE [any |-> TRUE, candidate |-> hook_server_ips, last |-> TRUE]
             /\ ret' = CycleResult(result)
             /\ pc' = AfterUpdate(result)
    /\ UNCHANGED <<hook_server_ips, logged, exit_err, cycles, hookCalls,
                   cycleHooks, startList, startFile, response_kind,
                   hook_status, prev, load_clean, startFailed>>

\* execute_after_update_hook runs bash -c after_update_hook and waits for it
Hook ==
    /\ pc = "hook"
    /\ hookCalls' = hookCalls + 1
    /\ cycleHooks' = cycleHooks + 1
    /\ \E status \in HookStatuses :
         /\ hook_status' = status
         /\ ret' = IF HookOk(status) THEN "ok_true" ELSE "err_hook"
    /\ pc' = "match"
    /\ UNCHANGED <<file, allow_list, hook_server_ips, logged, exit_err, cycles,
                   changedCount, startList, startFile, response_kind, upd, prev,
                   load_clean, failed, startFailed>>

(***************************************************************************)
(* The loop of main.                                                       *)
(***************************************************************************)
\* the match on the result of update_cycle
Match ==
    /\ pc = "match"
    /\ logged' = LogOf(ret)
    /\ pc' = AfterCycle(ret)
    /\ UNCHANGED <<file, allow_list, hook_server_ips, ret, exit_err, load_clean, history>>

\* std::thread::sleep returns and the loop starts over
Sleep ==
    /\ pc = "sleep"
    /\ pc' = "loop"
    /\ UNCHANGED <<file, allow_list, hook_server_ips, ret, logged, exit_err,
                   load_clean, history>>

Next ==
    \/ ReadConfig
    \/ ReadConfigFails
    \/ LoadOpenFails
    \/ LoadReadFails
    \/ Load
    \/ Fetch
    \/ UpdateUnchanged
    \/ UpdateChanged
    \/ Hook
    \/ Match
    \/ Sleep

Spec == Init /\ [][Next]_vars

\* the start-up states the fair specification follows: those of Init whose
\* allow file is shorter than the longest one
LiveInit == Init /\ Len(file) < MaxFileLines

\* main is one thread: a statement that can run does run. The network call
\* and the hook are taken to return.
FairSpec == LiveInit /\ [][Next]_vars /\ WF_vars(Next)

(***************************************************************************)
(* Predicates the properties are stated with.                              *)
(***************************************************************************)
\* update_cycle has been called and has returned
CycleReturned == cycles >= 1 /\ pc \notin {"update", "hook"}

\* the fetch of this cycle succeeded with a set other than the one in memory
ChangeDetected == response_kind = "ok" /\ hook_server_ips # startList

\* the fetch of this cycle failed
FetchFailed == cycles >= 1 /\ response_kind \in ResponseKinds \ {"ok"}

\* the save of this cycle met an I/O fault
SaveFailed == upd.fault \in {"set_len", "seek", "write"}

\* the hook of this cycle was run and failed
HookFailed == cycleHooks = 1 /\ ~(hook_status.launched /\ hook_status.code = 0)

\* main is inside its loop
InLoop == pc \in {"loop", "update", "hook", "match", "sleep"}

\* content is one "allow <CIDR>;" line per entry of S, each entry once, and
\* nothing else
FileHoldsExactly(content, S) ==
    /\ Len(content) = Cardinality(S)
    /\ \A c \in S : Cardinality({i \in 1..Len(content) : content[i] = FormatLine(c)}) = 1
    /\ \A i \in 1..Len(content) : \E c \in S : content[i] = FormatLine(c)

\* a line only a failed write leaves behind
IsPartialLine(line) ==
    \E c \in Cidrs : \E n \in PartialTokens \ {0} : line = SubSeq(FormatLine(c), 1, n)

(***************************************************************************)
(* C1                                                                      *)
(***************************************************************************)
\* C1, as claimed: in every cycle that has returned, the hook was invoked once
\* if the fetched set differed from the set in memory at the start of the
\* cycle, and not at all otherwise.
C1_HookOnEveryDetectedChange ==
    /\ cycleHooks <= 1
    /\ CycleReturned => cycleHooks = (IF ChangeDetected THEN 1 ELSE 0)

\* C1, amended: in every cycle that has returned, the hook was invoked once if
\* the fetched set differed from the set in memory at the start of the cycle
\* and the save met no I/O fault, and not at all otherwise.
C1_HookOnEverySavedChange ==
    /\ cycleHooks <= 1
    /\ CycleReturned => cycleHooks = (IF ChangeDetected /\ ~SaveFailed THEN 1 ELSE 0)

\* a second cycle detects a change and runs the hook, after a cycle without
C1_Witness ==
    /\ CycleReturned
    /\ cycles = 2
    /\ ChangeDetected
    /\ cycleHooks = 1
    /\ hookCalls = 1

(***************************************************************************)
(* C2                                                                      *)
(***************************************************************************)
\* C2: the number of hook invocations never exceeds the number of updates
\* that returned changed=true, equals it whenever a cycle has returned, and a
\* cycle whose update did not return changed=true invokes no hook.
C2_HookCountIsChangedCount ==
    /\ hookCalls <= changedCount
    /\ CycleReturned => hookCalls = changedCount
    /\ upd.ret # "true" => cycleHooks = 0

\* three cycles, two of them changed, the last one unchanged
C2_Witness ==
    /\ CycleReturned
    /\ cycles = 3
    /\ changedCount = 2
    /\ hookCalls = 2
    /\ upd.ret = "false"

(***************************************************************************)
(* C3                                                                      *)
(***************************************************************************)
\* C3: once the save of a cycle has succeeded, the file is exactly one allow
\* line per entry of the set in memory, which is the set update was given.
C3_SavedFileIsTheSet ==
    upd.ret = "true" => allow_list = upd.candidate /\ FileHoldsExactly(file, allow_list)

\* a save succeeds over a longer file that a failed save had left with a
\* partial line
C3_Witness ==
    /\ upd.ret = "true"
    /\ allow_list # {}
    /\ Len(startFile) > Cardinality(allow_list)
    /\ \E i \in 1..Len(startFile) : IsPartialLine(startFile[i])

(***************************************************************************)
(* C4                                                                      *)
(***************************************************************************)
\* C4: when load has returned its store and some line of the file is neither
\* blank nor a network once stripped, the set in memory is empty.
C4_LoadFailsClosed ==
    (pc = "loop" /\ cycles = 0 /\ HasBadLine(file)) => allow_list = {}

\* load has read a file with a valid entry followed by a malformed line
C4_Witness ==
    /\ pc = "loop"
    /\ cycles = 0
    /\ Len(file) = 2
    /\ IpNetworkFromStr(StripLine(file[1])).ok
    /\ HasBadLine(<<file[2]>>)

(***************************************************************************)
(* C5                                                                      *)
(***************************************************************************)
\* C5, as claimed: update returns changed=true if and only if its argument
\* differs from the set that was in memory.
C5_ChangedIffDiffers ==
    upd.called => (upd.ret = "true" <=> upd.candidate # startList)

\* C5, amended: update returns changed=false if and only if its argument
\* equals the set that was in memory, changed=true if and only if it differs
\* and the save met no I/O fault, and the I/O error if and only if it differs
\* and the save met one.
C5_ChangedIffDiffersAndSaved ==
    upd.called =>
        /\ upd.ret = "false" <=> upd.candidate = startList
        /\ upd.ret = "true" <=> (upd.candidate # startList /\ ~SaveFailed)
        /\ upd.ret = "io_error" <=> (upd.candidate # startList /\ SaveFailed)

\* update returns changed=true for a set of the same size as the stored one
C5_Witness ==
    /\ upd.called
    /\ upd.ret = "true"
    /\ startList # {}
    /\ Cardinality(upd.candidate) = Cardinality(startList)

(***************************************************************************)
(* C6                                                                      *)
(***************************************************************************)
\* C6: a call of update calls save if and only if its argument differs from
\* the set in memory; a call whose argument is the argument of the call
\* before it does not call save, leaves the set in memory and the file as
\* they were and returns changed=false.
C6_UpdateIsIdempotent ==
    /\ upd.called => (upd.fault # "not_called" <=> upd.candidate # startList)
    /\ (upd.called /\ prev.called /\ prev.candidate = upd.candidate) =>
          /\ upd.fault = "not_called"
          /\ allow_list = startList
          /\ file = startFile
          /\ upd.ret = "false"

\* the second of two calls with the same argument, after a first call whose
\* save left the file different from the set
C6_Witness ==
    /\ upd.called
    /\ prev.called
    /\ prev.candidate = upd.candidate
    /\ upd.ret = "false"
    /\ ~FileHoldsExactly(file, allow_list)

(***************************************************************************)
(* C7                                                                      *)
(***************************************************************************)
\* C7: when the save of update fails, the argument differed from the set in
\* memory, the set in memory is the argument all the same, and update and
\* update_cycle return the I/O error.
C7_SaveFailureKeepsCandidate ==
    SaveFailed =>
        /\ upd.candidate # startList
        /\ allow_list = upd.candidate
        /\ upd.ret = "io_error"
        /\ ret = "err_io"

\* a save fails while replacing a non-empty set
C7_Witness ==
    /\ SaveFailed
    /\ pc = "match"
    /\ startList # {}
    /\ allow_list # startList

(***************************************************************************)
(* C8                                                                      *)
(***************************************************************************)
\* what a cycle whose fetch failed leaves: the set in memory and the file of
\* the start of the cycle, no call of update, no hook, an error returned to
\* main and logged, and main still in its loop
FetchFailureIsolated ==
    FetchFailed =>
        /\ allow_list = startList
        /\ file = startFile
        /\ ~upd.called
        /\ cycleHooks = 0
        /\ ret = "err_fetch"
        /\ pc \in {"match", "sleep", "loop"}
        /\ pc # "match" => logged = "failed"

\* C8: a cycle whose fetch fails changes neither the set in memory nor the
\* file, invokes no hook, reports a failure, and is followed by the next
\* cycle.
C8_FetchFailureSkipsCycle ==
    /\ []FetchFailureIsolated
    /\ \A n \in 1..(MaxCycles - 1) : (FetchFailed /\ cycles = n) ~> (cycles = n + 1)

\* a cycle whose fetch failed has been logged, with entries in memory and
\* in the file
C8_Witness ==
    /\ FetchFailed
    /\ pc = "loop"
    /\ logged = "failed"
    /\ allow_list # {}
    /\ file # <<>>

(***************************************************************************)
(* C9                                                                      *)
(***************************************************************************)
\* C9: when the hook of a cycle fails, the cycle returns an error, which main
\* logs without leaving its loop, and the set in memory and the file hold
\* the fetched set, which differs from the set the cycle began with.
C9_HookFailureKeepsNewSet ==
    HookFailed =>
        /\ ret = "err_hook"
        /\ hook_server_ips # startList
        /\ allow_list = hook_server_ips
        /\ FileHoldsExactly(file, hook_server_ips)
        /\ pc \in {"match", "sleep", "loop"}
        /\ pc # "match" => logged = "failed"

\* the hook exited with a non-zero code and main is back at the top of its loop
C9_Witness ==
    /\ HookFailed
    /\ hook_status.launched
    /\ hook_status.code = 1
    /\ pc = "loop"
    /\ file # startFile

(***************************************************************************)
(* C10                                                                     *)
(***************************************************************************)
\* C10: main never leaves its loop once it is in it, every cycle comes back
\* to the top of the loop, and from there the next cycle starts (for the
\* cycles the model follows).
C10_LoopHasNoTerminalState ==
    /\ [][InLoop => InLoop']_vars
    /\ InLoop ~> (pc = "loop")
    /\ \A n \in 0..(MaxCycles - 1) : (InLoop /\ cycles = n) ~> (cycles = n + 1)

\* a cycle has started after a cycle that failed
C10_Witness ==
    /\ cycles >= 2
    /\ pc = "update"
    /\ logged = "failed"

(***************************************************************************)
(* Predicates of the properties C11 to C20.                                *)
(***************************************************************************)
\* the first line of the content is a network and the second is malformed
ValidThenBad(content) ==
    /\ Len(content) >= 2
    /\ IpNetworkFromStr(StripLine(content[1])).ok
    /\ HasBadLine(<<content[2]>>)

\* update has been called in this cycle and in no cycle before, and
\* update_cycle has returned: startFile is the file load has read
FirstUpdateReturned == CycleReturned /\ upd.called /\ ~prev.called

(***************************************************************************)
(* C11                                                                     *)
(***************************************************************************)
\* C11: once a save has succeeded, parsing the file as load does gives the
\* set that was saved.
C11_SaveThenParseIsIdentity ==
    upd.ret = "true" => ParseContent(file) = upd.candidate

\* a set of two networks has been saved over a file with a malformed line
C11_Witness ==
    /\ upd.ret = "true"
    /\ Cardinality(upd.candidate) = 2
    /\ HasBadLine(startFile)

(***************************************************************************)
(* C12                                                                     *)
(***************************************************************************)
\* C12: when load has abandoned parsing, at the end of the first cycle whose
\* fetch succeeds (and whose save, if any, met no I/O fault) the file is
\* exactly the fetched set.
C12_NextFetchRepopulates ==
    (FirstUpdateReturned /\ HasBadLine(startFile) /\ ~SaveFailed) =>
        FileHoldsExactly(file, hook_server_ips)

(***************************************************************************)
(* C13                                                                     *)
(***************************************************************************)
\* C13, as claimed: when the file load has read holds a valid entry followed
\* by a malformed line, the set in memory is empty, and the first fetch that
\* succeeds with a non-empty set leaves the file exactly that set and
\* invokes the hook.
C13_GarbageThenFetchRewrites ==
    (FirstUpdateReturned /\ ValidThenBad(startFile) /\ hook_server_ips # {}) =>
        /\ startList = {}
        /\ FileHoldsExactly(file, hook_server_ips)
        /\ cycleHooks = 1

\* C13, amended: in that case the set in memory is empty and the fetched set
\* is taken as a change: it replaces the set in memory and save is called;
\* when the save meets no I/O fault the file is exactly the fetched set and
\* the hook is invoked once, and when it meets one the cycle returns the I/O
\* error and invokes no hook.
C13_GarbageThenFetchIsAChange ==
    (FirstUpdateReturned /\ ValidThenBad(startFile) /\ hook_server_ips # {}) =>
        /\ startList = {}
        /\ upd.fault # "not_called"
        /\ allow_list = hook_server_ips
        /\ IF SaveFailed
           THEN ret = "err_io" /\ cycleHooks = 0
           ELSE FileHoldsExactly(file, hook_server_ips) /\ cycleHooks = 1

\* the fetched set is the valid entry of the file, and it is saved and hooked
C13_Witness ==
    /\ FirstUpdateReturned
    /\ ValidThenBad(startFile)
    /\ hook_server_ips = ParseContent(<<startFile[1]>>)
    /\ hook_server_ips # {}
    /\ ~SaveFailed
    /\ cycleHooks = 1

Successors ==
    { <<"config", "load">>, <<"config", "exit">>, <<"load", "loop">>,
      <<"load", "exit">>, <<"loop", "update">>, <<"loop", "match">>,
      <<"update", "hook">>, <<"update", "match">>, <<"hook", "match">>,
      <<"match", "sleep">>, <<"sleep", "loop">> }

\* a step follows the order fetch, update (compare and save), hook, match,
\* sleep; a cycle begins only at the top of the loop, the file is written
\* only by update and the hook runs only at the hook step
StepInOrder ==
    /\ <<pc, pc'>> \in Successors
    /\ cycles' # cycles => (pc = "loop" /\ cycles' = cycles + 1)
    /\ file' # file => pc = "update"
    /\ hookCalls' # hookCalls => (pc = "hook" /\ hookCalls' = hookCalls + 1)

\* when the hook is about to run or has run in this cycle, the fetch of the
\* cycle succeeded, its save succeeded and the file is the fetched set
HookAfterSave ==
    (pc = "hook" \/ cycleHooks >= 1) =>
        /\ response_kind = "ok"
        /\ upd.ret = "true"
        /\ allow_list = hook_server_ips
        /\ FileHoldsExactly(file, hook_server_ips)

\* C15: the steps of a cycle run in the order fetch, compare, persist, hook,
\* one cycle at a time, and whenever the hook is invoked the save of the
\* same cycle has succeeded and the file is exactly the set fetched in it.
C15_HookRunsAfterSave ==
    /\ [][StepInOrder]_vars
    /\ []HookAfterSave

\* the hook is about to run in a second cycle that has rewritten the file
C15_Witness ==
    /\ pc = "hook"
    /\ cycles = 2
    /\ startFile # <<>>
    /\ file # startFile

(***************************************************************************)
(* C16                                                                     *)
(***************************************************************************)
\* main has returned: with the error of the configuration or of load, before
\* any fetch, call of update or hook
ExitedAtStartup ==
    pc = "exit" =>
        /\ exit_err \in {"config", "load_open", "load_read"}
        /\ cycles = 0
        /\ response_kind = "none"
        /\ ~upd.called
        /\ hookCalls = 0

\* C16: main returns only from the configuration and load statements, it
\* returns whenever one of them fails, nothing runs after it has returned,
\* and no statement before the loop writes the file.
C16_OnlyStartupFailuresAreFatal ==
    /\ []ExitedAtStartup
    /\ [][(pc' = "exit") => (pc \in {"config", "load"})]_vars
    /\ [][(exit_err' # exit_err) => (pc' = "exit")]_vars
    /\ [][(pc \in {"config", "load"}) => (file' = file)]_vars
    /\ [][pc # "exit"]_vars

\* main has returned because the allow file could not be opened
C16_Witness ==
    /\ pc = "exit"
    /\ exit_err = "load_open"
    /\ file # <<>>

(***************************************************************************)
(* C17                                                                     *)
(***************************************************************************)
\* C17: when the hook has run in a cycle, the hook step has returned Ok
\* exactly if the command was launched and exited with code 0, and an error
\* otherwise.
C17_HookOkIffExitZero ==
    cycleHooks = 1 =>
        /\ ret \in {"ok_true", "err_hook"}
        /\ ret = "ok_true" <=> (hook_status.launched /\ hook_status.code = 0)

\* the command was launched and ended without an exit code
C17_Witness ==
    /\ cycleHooks = 1
    /\ hook_status.launched
    /\ hook_status.code = -1
    /\ ret = "err_hook"

(***************************************************************************)
(* C18                                                                     *)
(***************************************************************************)
\* what a cycle that finds nothing to do leaves
NothingDone ==
    /\ upd.ret = "false"
    /\ upd.fault = "not_called"
    /\ file = startFile
    /\ cycleHooks = 0

\* C18, as claimed: once a save has failed, a later cycle that fetches the
\* set that save was to write reports changed=false, writes nothing and
\* invokes no hook.
C18_FailedSetNeverWrittenAgain ==
    (upd.called /\ startFailed.any /\ upd.candidate = startFailed.candidate) =>
        NothingDone

\* C18, amended: once a save has failed, a later cycle that fetches the set
\* that save was to write, with no other set fetched in between, reports
\* changed=false, writes nothing and invokes no hook; and a cycle calls save
\* only when the fetched set differs from the set in memory.
C18_FailedSetNotWrittenWhileInMemory ==
    /\ startFailed.last => startList = startFailed.candidate
    /\ (upd.called /\ startFailed.last /\ upd.candidate = startFailed.candidate) =>
          NothingDone
    /\ (upd.called /\ upd.fault # "not_called") => upd.candidate # startList

\* the second cycle in a row that fetches the set of a failed save: the file
\* still differs from the set in memory
C18_Witness ==
    /\ cycles = 3
    /\ upd.called
    /\ prev.called
    /\ prev.candidate = upd.candidate
    /\ startFailed.last
    /\ upd.candidate = startFailed.candidate
    /\ ~FileHoldsExactly(file, allow_list)
    /\ ParseContent(file) # allow_list

(***************************************************************************)
(* C19                                                                     *)
(***************************************************************************)
\* C19: between cycles, when load met no malformed line and no save has
\* failed, parsing the file gives the set in memory.
C19_FileMatchesMemoryWhenIdle ==
    (pc \in {"sleep", "loop"} /\ load_clean /\ ~failed.any) =>
        ParseContent(file) = allow_list

\* idle after three cycles with two changes and a failed cycle
C19_Witness ==
    /\ pc = "sleep"
    /\ load_clean
    /\ ~failed.any
    /\ cycles = 3
    /\ changedCount = 2
    /\ logged = "failed"
    /\ allow_list # {}

(***************************************************************************)
(* C20                                                                     *)
(***************************************************************************)
\* C20: load leaves the file as it is; the file changes only in an update
\* whose argument differs from the set in memory; so a cycle that fetches
\* the set in memory, the empty one after an abandoned parse included,
\* leaves the file as it was.
C20_LoadLeavesTheFile ==
    /\ [][(pc = "load") => (file' = file)]_vars
    /\ [][(file' # file) => (pc = "update" /\ hook_server_ips # allow_list)]_vars
    /\ []((upd.called /\ upd.candidate = startList) => file = startFile)

\* after an abandoned parse, a fetch of the empty set has left a file that
\* still holds a valid entry and a malformed line
C20_Witness ==
    /\ FirstUpdateReturned
    /\ ~load_clean
    /\ upd.candidate = {}
    /\ ValidThenBad(file)
    /\ file = startFile

====
